---- MODULE Spec2Model ----
(***************************************************************************)
(* Benchmark measurement store and change detection of the two scripts     *)
(* visualize_benchmarks.py ("visualize") and compare_benchmark_iterations  *)
(* .py ("compare").                                                        *)
(*                                                                         *)
(* Python strings (file names, release labels, dataset names, column       *)
(* names, cell texts) are sequences of one-character strings, so that      *)
(* float(), str.lower(), str.strip(), the regular expression of            *)
(* extract_release_from_filename and the lexicographic order of sort keys  *)
(* are computed character by character.  Python's None and a list value    *)
(* are the two sentinels NoneVal and ListVal, which are no character       *)
(* sequences.  Measurements are integers; a percentage is an exact         *)
(* fraction <<numerator, denominator>> in lowest terms (the cell texts of  *)
(* the model are integers of small magnitude, for which the float          *)
(* arithmetic of the code is exact).                                       *)
(***************************************************************************)
EXTENDS Integers, Sequences, FiniteSets, TLC

VARIABLES
    mode,       \* which script's BenchmarkData class: "visualize" | "compare"
    pc,         \* position of the program: "loading" | "reading" | "loaded" |
                \* "plotted" | "detected" | "crashed"
    releases,   \* BenchmarkData.releases: list of release labels
    data,       \* BenchmarkData.data: release -> dataset -> metric -> value
    datasets,   \* BenchmarkData.datasets
    metrics,    \* BenchmarkData.metrics
    ncalls,     \* number of operations executed so far
    pre,        \* the four store fields as they were before the last operation
    last,       \* the last operation: its name, arguments and result
    benchmark_data1
                \* main of compare: the store of the first run, once the
                \* second store is being loaded (the empty store before)

vars == <<mode, pc, releases, data, datasets, metrics, ncalls, pre, last,
          benchmark_data1>>

-----------------------------------------------------------------------------
(* Bounds of the model *)

MaxCalls == 2
MaxRows == 2
MaxDetectCalls == 3
MaxDirFiles == 3
MaxRunFiles == 3
MaxReads == 2

-----------------------------------------------------------------------------
(* Characters and strings *)

\* The characters of the model in ASCII order; Code is the rank of a character.
Chars ==
    <<" ", "-", ".", "0", "1", "2", "3", "4", "5", "6", "7", "8", "9", "@",
      "A", "B", "C", "D", "E", "F", "G", "H", "I", "J", "K", "L", "M", "N",
      "O", "P", "Q", "R", "S", "T", "U", "V", "W", "X", "Y", "Z", "_",
      "a", "b", "c", "d", "e", "f", "g", "h", "i", "j", "k", "l", "m", "n",
      "o", "p", "q", "r", "s", "t", "u", "v", "w", "x", "y", "z">>

CodeOf == [c \in {Chars[i] : i \in 1..Len(Chars)} |->
              CHOOSE i \in 1..Len(Chars) : Chars[i] = c]

Code(c) == CodeOf[c]

Digits == {"0", "1", "2", "3", "4", "5", "6", "7", "8", "9"}

DigitVal(c) == Code(c) - Code("0")

IsUpper(c) == Code(c) >= Code("A") /\ Code(c) <= Code("Z")

\* str.lower() on one character and on a string
LowerChar(c) == IF IsUpper(c) THEN Chars[Code(c) - Code("A") + Code("a")] ELSE c

Lower(s) == [i \in 1..Len(s) |-> LowerChar(s[i])]

\* str.strip(): leading and trailing blanks removed
RECURSIVE LStrip(_)
LStrip(s) == IF s # <<>> /\ Head(s) = " " THEN LStrip(Tail(s)) ELSE s

RECURSIVE RStrip(_)
RStrip(s) ==
    IF s # <<>> /\ s[Len(s)] = " " THEN RStrip(SubSeq(s, 1, Len(s) - 1)) ELSE s

Strip(s) == RStrip(LStrip(s))

\* Python's None, and a list (the value DictReader stores under restkey)
NoneVal == <<"None">>
ListVal == <<"list">>

IsStr(v) == v # NoneVal /\ v # ListVal

\* The names the code compares against
DATASET == <<"d", "a", "t", "a", "s", "e", "t">>
DATASET_CAP == <<"D", "a", "t", "a", "s", "e", "t">>
MAIN == <<"m", "a", "i", "n">>
QPS == <<"Q", "P", "S">>
RECALL_AT_10 == <<"R", "e", "c", "a", "l", "l", "@", "1", "0">>
MEAN_LATENCY == <<"M", "e", "a", "n", " ", "L", "a", "t", "e", "n", "c", "y">>
INDEX_BUILD_TIME ==
    <<"I", "n", "d", "e", "x", " ", "B", "u", "i", "l", "d", " ", "T", "i", "m", "e">>
QPS_STDDEV == <<"Q", "P", "S", " ", "S", "t", "d", "D", "e", "v">>

HIGHER_IS_BETTER == {QPS, RECALL_AT_10}
LOWER_IS_BETTER == {MEAN_LATENCY, INDEX_BUILD_TIME}

-----------------------------------------------------------------------------
(* float(value) *)

AllDigits(s) == s # <<>> /\ \A i \in 1..Len(s) : s[i] \in Digits

RECURSIVE DigitsValue(_)
DigitsValue(s) ==
    IF s = <<>> THEN 0
    ELSE 10 * DigitsValue(SubSeq(s, 1, Len(s) - 1)) + DigitVal(s[Len(s)])

\* float() of a string over the model's characters: blanks around it are
\* ignored, then an optional sign and decimal digits.  The file texts of the
\* model hold no ".", "e", "_", "inf" or "nan", so this is float()'s grammar
\* on them.  Result: <<"ok", number>>, or <<"ValueError">> / <<"TypeError">>.
ParseFloat(v) ==
    IF ~IsStr(v) THEN <<"TypeError">>
    ELSE LET t == Strip(v)
             signed == t # <<>> /\ Head(t) \in {"-", "+"}
             body == IF signed THEN Tail(t) ELSE t
         IN  IF AllDigits(body)
             THEN <<"ok", IF signed /\ Head(t) = "-"
                          THEN 0 - DigitsValue(body) ELSE DigitsValue(body)>>
             ELSE <<"ValueError">>

-----------------------------------------------------------------------------
(* The store: BenchmarkData *)

EmptyMap == [k \in {} |-> 0]

\* BenchmarkData.__init__
EmptyStore ==
    [releases |-> <<>>, data |-> EmptyMap, datasets |-> {}, metrics |-> {}]

Store == [releases |-> releases, data |-> data, datasets |-> datasets,
          metrics |-> metrics]

InSeq(x, s) == \E i \in 1..Len(s) : s[i] = x

\* A variant that appends without the membership test
AppendReleaseAlways(S, release) ==
    [S EXCEPT !.releases = Append(@, release)]

\* if release not in self.releases: self.releases.append(release)
AppendRelease(S, release) ==
    IF InSeq(release, S.releases) THEN S
    ELSE [S EXCEPT !.releases = Append(@, release)]

\* self.data[release][dataset][metric] = value on the nested defaultdicts:
\* the release and dataset levels are created when missing.
SetValue(dat, release, dataset, metric, value) ==
    LET byDataset == IF release \in DOMAIN dat THEN dat[release] ELSE EmptyMap
        byMetric == IF dataset \in DOMAIN byDataset THEN byDataset[dataset]
                    ELSE EmptyMap
    IN  (release :> ((dataset :> ((metric :> value) @@ byMetric)) @@ byDataset))
            @@ dat

\* (release, dataset, metric) holds a value / the value it holds
HasValue(dat, release, dataset, metric) ==
    /\ release \in DOMAIN dat
    /\ dataset \in DOMAIN dat[release]
    /\ metric \in DOMAIN dat[release][dataset]

ValueOf(dat, release, dataset, metric) == dat[release][dataset][metric]

-----------------------------------------------------------------------------
(* csv.DictReader *)

\* One row as the dict DictReader yields, a sequence of <<key, value>> in key
\* order: the header's columns zipped with the row's cells, None (restval)
\* for the columns a short row lacks, and the surplus cells of a long row as
\* a list under the key None (restkey).
DictRow(header, row) ==
    LET zipped == [i \in 1..Len(header) |->
                      <<header[i], IF i <= Len(row) THEN row[i] ELSE NoneVal>>]
    IN  IF Len(row) > Len(header) THEN Append(zipped, <<NoneVal, ListVal>>)
        ELSE zipped

HasKey(d, key) == \E i \in 1..Len(d) : d[i][1] = key

\* row.get(key): the value, or None when the key is absent
RowGet(d, key) ==
    IF HasKey(d, key) THEN d[CHOOSE i \in 1..Len(d) : d[i][1] = key][2]
    ELSE NoneVal

\* Python truth of a str-or-None value
Truthy(v) == v # NoneVal /\ v # <<>>

-----------------------------------------------------------------------------
(* BenchmarkData.add_file of visualize_benchmarks.py *)

\* A file is [readable, header, rows]: open() raises on an unreadable file;
\* rows are the non-empty records after the header line.

\* What the except clause of the cell's try block does with the outcome of
\* float(): "store" the number, "skip" the cell (ValueError is caught), or
\* "raise" (a TypeError is not a ValueError and leaves the try block).
CellOutcomeV(parsed) ==
    IF parsed[1] = "ok" THEN "store"
    ELSE IF parsed[1] = "ValueError" THEN "skip"
    ELSE "raise"

\* for metric, value in row.items(): ... from entry i of the row's dict on.
\* Result: the store, and whether an exception left the loop.
RECURSIVE CellsV(_, _, _, _, _)
CellsV(S, release, dataset, d, i) ==
    IF i > Len(d) THEN [store |-> S, raised |-> FALSE]
    ELSE LET metric == d[i][1]
             parsed == ParseFloat(d[i][2])
             outcome == CellOutcomeV(parsed)
         IN  IF metric = DATASET THEN CellsV(S, release, dataset, d, i + 1)
             ELSE IF outcome = "store"
             THEN CellsV([S EXCEPT
                            !.metrics = @ \cup {metric},
                            !.data = SetValue(@, release, dataset, metric,
                                              parsed[2])],
                         release, dataset, d, i + 1)
             ELSE IF outcome = "skip" THEN CellsV(S, release, dataset, d, i + 1)
             ELSE [store |-> S, raised |-> TRUE]

\* for row in reader: ... from row j on.  row['dataset'] raises KeyError when
\* the header has no such column.
RECURSIVE RowsV(_, _, _, _, _)
RowsV(S, release, header, rows, j) ==
    IF j > Len(rows) THEN [store |-> S, raised |-> FALSE]
    ELSE LET d == DictRow(header, rows[j])
         IN  IF ~HasKey(d, DATASET) THEN [store |-> S, raised |-> TRUE]
             ELSE LET dataset == RowGet(d, DATASET)
                      S1 == [S EXCEPT !.datasets = @ \cup {dataset}]
                      r == CellsV(S1, release, dataset, d, 1)
                  IN  IF r.raised THEN r
                      ELSE RowsV(r.store, release, header, rows, j + 1)

\* add_file(file_path, release): the release is appended before the try
\* block; any exception inside it is caught and reported as False.
AddFileV(S, file, release) ==
    LET S1 == AppendRelease(S, release)
    IN  IF ~file.readable THEN [store |-> S1, ret |-> "False"]
        ELSE LET r == RowsV(S1, release, file.header, file.rows, 1)
             IN  [store |-> r.store,
                  ret |-> IF r.raised THEN "False" ELSE "True"]

-----------------------------------------------------------------------------
(* BenchmarkData.add_file of compare_benchmark_iterations.py *)

\* for key, value in row.items(): ... from entry i on.  key.lower() raises
\* AttributeError on the key None, value.strip() on the value None; neither
\* is caught.
RECURSIVE CellsC(_, _, _, _, _)
CellsC(S, release, dataset, d, i) ==
    IF i > Len(d) THEN [store |-> S, raised |-> FALSE]
    ELSE LET key == d[i][1]
             value == d[i][2]
             parsed == ParseFloat(value)
         IN  IF key = NoneVal THEN [store |-> S, raised |-> TRUE]
             ELSE IF Lower(key) = DATASET
             THEN CellsC(S, release, dataset, d, i + 1)
             ELSE IF ~IsStr(value) THEN [store |-> S, raised |-> TRUE]
             ELSE IF Strip(value) # <<>> /\ parsed[1] = "ok"
             THEN CellsC([S EXCEPT
                            !.data = SetValue(@, release, dataset, key,
                                              parsed[2]),
                            !.metrics = @ \cup {key}],
                         release, dataset, d, i + 1)
             ELSE CellsC(S, release, dataset, d, i + 1)

\* dataset = row.get('Dataset') or row.get('dataset')
DatasetOfRowC(d) ==
    IF Truthy(RowGet(d, DATASET_CAP)) THEN RowGet(d, DATASET_CAP)
    ELSE RowGet(d, DATASET)

\* for row in reader: ... from row j on; a row without a dataset is skipped.
RECURSIVE RowsC(_, _, _, _, _)
RowsC(S, release, header, rows, j) ==
    IF j > Len(rows) THEN [store |-> S, raised |-> FALSE]
    ELSE LET d == DictRow(header, rows[j])
             dataset == DatasetOfRowC(d)
         IN  IF ~Truthy(dataset) THEN RowsC(S, release, header, rows, j + 1)
             ELSE LET S1 == [S EXCEPT !.datasets = @ \cup {dataset}]
                      r == CellsC(S1, release, dataset, d, 1)
                  IN  IF r.raised THEN r
                      ELSE RowsC(r.store, release, header, rows, j + 1)

\* add_file(file_path, release): no try block; an exception of open() or of
\* a row leaves the method ("raise"), otherwise it returns None.
AddFileC(S, file, release) ==
    LET S1 == AppendRelease(S, release)
    IN  IF ~file.readable THEN [store |-> S1, ret |-> "raise"]
        ELSE LET r == RowsC(S1, release, file.header, file.rows, 1)
             IN  [store |-> r.store,
                  ret |-> IF r.raised THEN "raise" ELSE "None"]

AddFileOf(m, S, file, release) ==
    IF m = "visualize" THEN AddFileV(S, file, release)
    ELSE AddFileC(S, file, release)

-----------------------------------------------------------------------------
(* BenchmarkData.get_metric_data_for_dataset (the same in both scripts) *)

Range(s) == {s[i] : i \in 1..Len(s)}

\* Reading self.data[release] on the defaultdict creates the release's entry.
Touch(dat, rels) ==
    [r \in DOMAIN dat \cup Range(rels) |->
        IF r \in DOMAIN dat THEN dat[r] ELSE EmptyMap]

\* The loop over self.releases from index i on: <<releases, values>>
RECURSIVE SeriesFrom(_, _, _, _)
SeriesFrom(S, metric, dataset, i) ==
    IF i > Len(S.releases) THEN << <<>>, <<>> >>
    ELSE LET release == S.releases[i]
             rest == SeriesFrom(S, metric, dataset, i + 1)
         IN  IF HasValue(S.data, release, dataset, metric)
             THEN << <<release>> \o rest[1],
                     <<ValueOf(S.data, release, dataset, metric)>> \o rest[2] >>
             ELSE rest

\* A variant whose loop misses the first release
GetMetricDataSkippingFirst(S, metric, dataset) ==
    [store |-> [S EXCEPT !.data = Touch(@, S.releases)],
     out |-> SeriesFrom(S, metric, dataset, 2)]

GetMetricDataForDataset(S, metric, dataset) ==
    [store |-> [S EXCEPT !.data = Touch(@, S.releases)],
     out |-> SeriesFrom(S, metric, dataset, 1)]

-----------------------------------------------------------------------------
(* BenchmarkData.detect_changes *)

Abs(n) == IF n < 0 THEN 0 - n ELSE n

RECURSIVE Gcd(_, _)
Gcd(a, b) == IF b = 0 THEN a ELSE Gcd(b, a % b)

\* The fraction n / d (d # 0) in lowest terms with a positive denominator
Frac(n, d) ==
    LET g == Gcd(Abs(n), Abs(d))
        sign == IF d < 0 THEN 0 - 1 ELSE 1
    IN  <<(sign * n) \div g, Abs(d) \div g>>

\* ((current_value - previous_value) / previous_value) * 100
ChangePct(current_value, previous_value) ==
    Frac((current_value - previous_value) * 100, previous_value)

\* A variant that classifies every metric as if higher were better
ClassifyHigherOnly(metric, change_pct) ==
    IF metric \in HIGHER_IS_BETTER \cup LOWER_IS_BETTER
    THEN (IF change_pct[1] > 0 THEN "improvement" ELSE "regression")
    ELSE "unknown"

\* status, from the metric's set and the sign of change_pct
Classify(metric, change_pct) ==
    IF metric \in HIGHER_IS_BETTER
    THEN (IF change_pct[1] > 0 THEN "improvement" ELSE "regression")
    ELSE IF metric \in LOWER_IS_BETTER
    THEN (IF change_pct[1] < 0 THEN "improvement" ELSE "regression")
    ELSE "unknown"

\* A variant with a strict comparison
SignificantStrict(change_pct, threshold_percent) ==
    Abs(change_pct[1]) > threshold_percent * change_pct[2]

\* abs(change_pct) >= threshold_percent
Significant(change_pct, threshold_percent) ==
    Abs(change_pct[1]) >= threshold_percent * change_pct[2]

\* A variant that compares every entry with the first of the series
PreviousIndexFirst(i) == 1

\* The entry compared with entry i: values[i-1], releases[i-1]
PreviousIndex(i) == i - 1

\* The body of the loop over i for entry i of the series (i >= 2): the
\* records it appends, none or one.
StepChanges(series, dataset, metric, threshold_percent, i) ==
    LET current_value == series[2][i]
        previous_value == series[2][PreviousIndex(i)]
        change_pct == ChangePct(current_value, previous_value)
    IN  IF previous_value = 0 THEN <<>>
        ELSE IF Significant(change_pct, threshold_percent)
        THEN << [dataset |-> dataset,
                 metric |-> metric,
                 current_release |-> series[1][i],
                 previous_release |-> series[1][PreviousIndex(i)],
                 current_value |-> current_value,
                 previous_value |-> previous_value,
                 change_pct |-> change_pct,
                 status |-> Classify(metric, change_pct)] >>
        ELSE <<>>

\* for i in range(1, len(releases)), from entry i on
RECURSIVE SeriesChanges(_, _, _, _, _)
SeriesChanges(series, dataset, metric, threshold_percent, i) ==
    IF i > Len(series[1]) THEN <<>>
    ELSE StepChanges(series, dataset, metric, threshold_percent, i)
         \o SeriesChanges(series, dataset, metric, threshold_percent, i + 1)

\* A variant that keeps only the records of the pair handled last
ExtendOverwriting(changes, more) == more

\* changes.append(...) for the records of one (dataset, metric)
Extend(changes, more) == changes \o more

\* for metric in self.metrics, in the order mOrder, from its entry k on
RECURSIVE MetricsLoop(_, _, _, _, _, _)
MetricsLoop(S, changes, dataset, mOrder, threshold_percent, k) ==
    IF k > Len(mOrder) THEN changes
    ELSE MetricsLoop(S,
            Extend(changes,
                   SeriesChanges(SeriesFrom(S, mOrder[k], dataset, 1),
                                 dataset, mOrder[k], threshold_percent, 2)),
            dataset, mOrder, threshold_percent, k + 1)

\* for dataset in self.datasets, in the order dsOrder, from its entry j on
RECURSIVE DatasetsLoop(_, _, _, _, _, _)
DatasetsLoop(S, changes, dsOrder, mOrder, threshold_percent, j) ==
    IF j > Len(dsOrder) THEN changes
    ELSE DatasetsLoop(S,
            MetricsLoop(S, changes, dsOrder[j], mOrder, threshold_percent, 1),
            dsOrder, mOrder, threshold_percent, j + 1)

\* detect_changes(threshold_percent); dsOrder and mOrder are the orders in
\* which the sets self.datasets and self.metrics are iterated.  Every call
\* of get_metric_data_for_dataset reads self.data[release] of every release.
DetectChanges(S, threshold_percent, dsOrder, mOrder) ==
    [store |-> IF dsOrder # <<>> /\ mOrder # <<>>
               THEN [S EXCEPT !.data = Touch(@, S.releases)] ELSE S,
     out |-> DatasetsLoop(S, <<>>, dsOrder, mOrder, threshold_percent, 1)]

\* The enumerations of a set
Orders(T) ==
    {f \in [1..Cardinality(T) -> T] : \A i, j \in DOMAIN f : f[i] = f[j] => i = j}

-----------------------------------------------------------------------------
(* The combined plot of generate_plots (visualize_benchmarks.py) *)

\* A variant that plots the change relative to the first value
AggregatedValuesAsChange(values) ==
    [i \in 1..Len(values) |-> Frac(values[i] - values[1], values[1])]

\* aggregated_values = [v / values[0] for v in values], as exact fractions
AggregatedValues(values) ==
    [i \in 1..Len(values) |-> Frac(values[i], values[1])]

\* What is plotted for one series <<releases, values>>: the pair
\* <<releases, aggregated_values>>, or <<>> when the series is empty or its
\* first value is 0
Aggregate(series) ==
    LET values == series[2]
    IN  IF series[1] # <<>> /\ values # <<>>
        THEN (IF values[1] # 0 THEN <<series[1], AggregatedValues(values)>>
              ELSE <<>>)
        ELSE <<>>

\* The loops over benchmark_data.metrics and benchmark_data.datasets: the
\* lines plotted, one record each.  Every call of
\* get_metric_data_for_dataset reads self.data[release] of every release.
AggregatedComparison(S) ==
    LET plotted == {q \in S.metrics \X S.datasets :
                      Aggregate(SeriesFrom(S, q[1], q[2], 1)) # <<>>}
    IN  [store |-> IF S.metrics # {} /\ S.datasets # {}
                   THEN [S EXCEPT !.data = Touch(@, S.releases)] ELSE S,
         out |-> {[metric |-> q[1], dataset |-> q[2],
                   releases |-> Aggregate(SeriesFrom(S, q[1], q[2], 1))[1],
                   aggregated_values |->
                       Aggregate(SeriesFrom(S, q[1], q[2], 1))[2]] :
                  q \in plotted}]

-----------------------------------------------------------------------------
(* extract_release_from_filename and load_benchmark_data of
   compare_benchmark_iterations.py *)

\* The first position from i on that holds no digit (Len(s) + 1 if none)
RECURSIVE DigitRunEnd(_, _)
DigitRunEnd(s, i) ==
    IF i <= Len(s) /\ s[i] \in Digits THEN DigitRunEnd(s, i + 1) ELSE i

\* \d+\.\d+\.\d+ matched at position i: the position after the match, or 0.
\* Each \d+ takes the whole run of digits: giving one back would leave a
\* digit where the pattern wants "." or, for the last one, shorten the match.
VersionEndAt(s, i) ==
    LET e1 == DigitRunEnd(s, i)
        e2 == DigitRunEnd(s, e1 + 1)
        e3 == DigitRunEnd(s, e2 + 1)
    IN  IF /\ e1 > i /\ e1 <= Len(s) /\ s[e1] = "."
           /\ e2 > e1 + 1 /\ e2 <= Len(s) /\ s[e2] = "."
           /\ e3 > e2 + 1
        THEN e3 ELSE 0

\* v?(\d+\.\d+\.\d+) matched at position p: <<first, last>> of group 1, or
\* <<>>; the optional "v" is tried before the empty alternative.
GroupAt(s, p) ==
    IF p <= Len(s) /\ s[p] = "v" /\ VersionEndAt(s, p + 1) # 0
    THEN <<p + 1, VersionEndAt(s, p + 1) - 1>>
    ELSE IF p <= Len(s) /\ VersionEndAt(s, p) # 0
    THEN <<p, VersionEndAt(s, p) - 1>>
    ELSE <<>>

\* os.path.splitext(filename)[0] of a name without directory part: the name
\* up to its last ".", unless only "." precede that one.
SplitExtRoot(s) ==
    LET dots == {i \in 1..Len(s) : s[i] = "."}
        lastDot == CHOOSE i \in dots : \A k \in dots : k <= i
    IN  IF dots = {} \/ \A k \in 1..(lastDot - 1) : s[k] = "." THEN s
        ELSE SubSeq(s, 1, lastDot - 1)

\* re.search takes the leftmost position with a match
ExtractReleaseFromFilename(filename) ==
    LET starts == {p \in 1..Len(filename) : GroupAt(filename, p) # <<>>}
        first == CHOOSE p \in starts : \A q \in starts : p <= q
    IN  IF starts = {} THEN SplitExtRoot(filename)
        ELSE SubSeq(filename, GroupAt(filename, first)[1],
                    GroupAt(filename, first)[2])

\* A variant that puts the shorter string first and compares strings of one
\* length by code point
StrLessShorterFirst(a, b) ==
    \/ Len(a) < Len(b)
    \/ /\ Len(a) = Len(b)
       /\ \E k \in 1..Len(a) :
             /\ \A n \in 1..(k - 1) : a[n] = b[n]
             /\ Code(a[k]) < Code(b[k])

\* Python's order of str: by code point, a proper prefix first
RECURSIVE StrLess(_, _)
StrLess(a, b) ==
    IF b = <<>> THEN FALSE
    ELSE IF a = <<>> THEN TRUE
    ELSE IF Head(a) = Head(b) THEN StrLess(Tail(a), Tail(b))
    ELSE Code(Head(a)) < Code(Head(b))

\* sort_key(filename): (0, release) for the release "main" in any case,
\* (1, release) otherwise
SortKey(filename) ==
    LET release == ExtractReleaseFromFilename(filename)
    IN  IF Lower(release) = MAIN THEN <<0, release>> ELSE <<1, release>>

\* The order of the key tuples
KeyLess(k1, k2) ==
    \/ k1[1] < k2[1]
    \/ k1[1] = k2[1] /\ StrLess(k1[2], k2[2])

\* x put into the sorted list after every entry whose key is not greater
RECURSIVE InsertByKey(_, _)
InsertByKey(sorted, x) ==
    IF sorted = <<>> THEN <<x>>
    ELSE IF KeyLess(SortKey(x), SortKey(Head(sorted)))
    THEN <<x>> \o sorted
    ELSE <<Head(sorted)>> \o InsertByKey(Tail(sorted), x)

\* csv_files.sort(key=sort_key): a stable sort
RECURSIVE SortFiles(_)
SortFiles(names) ==
    IF names = <<>> THEN <<>>
    ELSE InsertByKey(SortFiles(SubSeq(names, 1, Len(names) - 1)),
                     names[Len(names)])

\* The loop over the sorted files from entry k on; files[name] is the content
\* of the file.  An exception of add_file ends the loop.
RECURSIVE LoadLoop(_, _, _, _)
LoadLoop(S, sorted, files, k) ==
    IF k > Len(sorted) THEN [store |-> S, ret |-> "None"]
    ELSE LET res == AddFileC(S, files[sorted[k]],
                             ExtractReleaseFromFilename(sorted[k]))
         IN  IF res.ret = "raise" THEN res
             ELSE LoadLoop(res.store, sorted, files, k + 1)

\* load_benchmark_data(directory) for a directory whose os.listdir answer,
\* cut down to the .csv names, is the non-empty list names
LoadBenchmarkData(names, files) ==
    LoadLoop(EmptyStore, SortFiles(names), files, 1)

-----------------------------------------------------------------------------
(* The release axis of generate_comparison_plots *)

\* for release in benchmark_data2.releases: if release not in all_releases:
\* all_releases.append(release), from entry i of the second list on
RECURSIVE AppendMissing(_, _, _)
AppendMissing(all_releases, releases2, i) ==
    IF i > Len(releases2) THEN all_releases
    ELSE AppendMissing(IF InSeq(releases2[i], all_releases) THEN all_releases
                       ELSE Append(all_releases, releases2[i]),
                       releases2, i + 1)

\* A variant that builds the axis in the first store's own list
MergeReleasesInPlace(S1, S2) ==
    LET all_releases == AppendMissing(S1.releases, S2.releases, 1)
    IN  [run1 |-> [S1 EXCEPT !.releases = all_releases], run2 |-> S2,
         out |-> all_releases]

\* all_releases = list(benchmark_data1.releases) is a copy of the first
\* store's list; the loop appends to the copy.  Result: the two stores after
\* the computation and the axis.
MergeReleases(S1, S2) ==
    [run1 |-> S1, run2 |-> S2,
     out |-> AppendMissing(S1.releases, S2.releases, 1)]

-----------------------------------------------------------------------------
(* Inputs of the model *)

SeqsUpTo(S, n) == UNION {[1..k -> S] : k \in 0..n}

NoDuplicatesIn(s) == \A i, j \in 1..Len(s) : s[i] = s[j] => i = j

RelA == <<"1", ".", "0">>
RelB == <<"1", ".", "1">>
RelC == <<"1", ".", "2">>

DsA == <<"a">>
DsB == <<"b">>

\* A file that cannot be opened
NoFile == [readable |-> FALSE, header |-> <<>>, rows |-> <<>>]

StdHeader == <<DATASET, QPS, MEAN_LATENCY>>

\* Rows under StdHeader: numeric cells, a text cell before a numeric one, and
\* a row shorter than the header.
IngestRows ==
    { <<DsA, <<"1">>, <<"2">> >>,
      <<DsA, <<"x">>, <<"1">> >>,
      <<DsA, <<"2">> >> }

\* Further files: empty cells, the dataset column spelled "Dataset", no
\* dataset column at all, a row longer than the header, and a row with an
\* empty dataset cell.
OddFiles ==
    { [readable |-> TRUE, header |-> StdHeader,
       rows |-> << <<DsB, <<>>, <<"1">> >>, <<DsB, <<"2">>, <<" ">> >> >>],
      [readable |-> TRUE, header |-> <<DATASET_CAP, QPS>>,
       rows |-> << <<DsB, <<"2">> >> >>],
      [readable |-> TRUE, header |-> <<QPS, MEAN_LATENCY>>,
       rows |-> << <<<<"1">>, <<"1">> >> >>],
      [readable |-> TRUE, header |-> <<DATASET, QPS>>,
       rows |-> << <<DsA, <<"1">>, <<"2">> >>, <<DsB, <<"1">> >> >>],
      [readable |-> TRUE, header |-> StdHeader,
       rows |-> << <<<<>>, <<"1">>, <<"1">> >>, <<DsB, <<"2">>, <<"2">> >> >>] }

IngestFiles ==
    {[readable |-> TRUE, header |-> StdHeader, rows |-> rs] :
        rs \in SeqsUpTo(IngestRows, MaxRows)}
    \cup OddFiles \cup {NoFile}

IngestLabels == {RelA, RelB}

\* Well-formed result files of three metrics for the change detector
ChangeHeader == <<DATASET, QPS, MEAN_LATENCY, QPS_STDDEV>>

ChangeFiles ==
    { [readable |-> TRUE, header |-> ChangeHeader,
       rows |-> << <<DsA, <<"1">>, <<"1">>, <<"1">> >>,
                   <<DsB, <<"2">>, <<"0">>, <<"1">> >> >>],
      [readable |-> TRUE, header |-> ChangeHeader,
       rows |-> << <<DsA, <<"2">>, <<"2">>, <<"2">> >>,
                   <<DsB, <<"1">>, <<"1">>, <<>> >> >>],
      [readable |-> TRUE, header |-> ChangeHeader,
       rows |-> << <<DsB, <<"0">>, <<"2">>, <<"1">> >> >>] }

ChangeLabels == {RelA, RelB, MAIN}

\* The names a directory may hold, and the contents of its files
DirNames ==
    { <<"m", "a", "i", "n", ".", "c", "s", "v">>,
      <<"M", "a", "i", "n", ".", "c", "s", "v">>,
      <<"2", ".", "0", ".", "0", ".", "c", "s", "v">>,
      <<"1", "0", ".", "0", ".", "0", ".", "c", "s", "v">>,
      <<"v", "2", ".", "0", ".", "0", ".", "c", "s", "v">>,
      <<"b", "e", "t", "a", ".", "c", "s", "v">> }

DirFiles ==
    { [readable |-> TRUE, header |-> StdHeader,
       rows |-> << <<DsA, <<"1">>, <<"2">> >> >>],
      [readable |-> TRUE, header |-> StdHeader,
       rows |-> << <<DsB, <<"2">> >> >>] }

\* What os.listdir may answer: up to MaxDirFiles names, in any order
DirListings ==
    {names \in SeqsUpTo(DirNames, MaxDirFiles) :
        names # <<>> /\ NoDuplicatesIn(names)}

\* The result file and the release labels of the two runs that are compared
AxisFiles ==
    { [readable |-> TRUE, header |-> StdHeader,
       rows |-> << <<DsA, <<"1">>, <<"2">> >> >>] }

Run1Labels == {RelA, RelB}
Run2Labels == {RelB, RelC, MAIN}

\* Files for the read operations: numeric cells, text cells only, and a file
\* that cannot be opened
ReadFiles ==
    { [readable |-> TRUE, header |-> StdHeader,
       rows |-> << <<DsA, <<"1">>, <<"2">> >> >>],
      [readable |-> TRUE, header |-> StdHeader,
       rows |-> << <<DsA, <<"x">>, <<"x">> >> >>],
      NoFile }

QueryMetrics == {QPS, MEAN_LATENCY, QPS_STDDEV}
QueryDatasets == {DsA, DsB}
Thresholds == {0, 50}

-----------------------------------------------------------------------------
(* The programs *)

\* The record of an operation: its name, the file and release of add_file,
\* the result, the other arguments (query) and the returned value (out).
Op(op, file, release, ret, query, out) ==
    [op |-> op, file |-> file, release |-> release, ret |-> ret,
     query |-> query, out |-> out]

NoOp == Op("init", NoFile, <<>>, "None", <<>>, <<>>)

Init ==
    /\ mode \in {"visualize", "compare"}
    /\ pc = "loading"
    /\ releases = <<>>
    /\ data = EmptyMap
    /\ datasets = {}
    /\ metrics = {}
    /\ ncalls = 0
    /\ pre = EmptyStore
    /\ last = NoOp
    /\ benchmark_data1 = EmptyStore

SetStore(S) ==
    /\ releases' = S.releases
    /\ data' = S.data
    /\ datasets' = S.datasets
    /\ metrics' = S.metrics

\* One call benchmark_data.add_file(file_path, release).  In compare an
\* exception of add_file is caught nowhere: the script ends.
AddFile(files, labels, bound) ==
    /\ pc = "loading"
    /\ ncalls < bound
    /\ \E file \in files, release \in labels :
          LET res == AddFileOf(mode, Store, file, release)
          IN  /\ SetStore(res.store)
              /\ pc' = IF res.ret = "raise" THEN "crashed" ELSE pc
              /\ last' = Op("add_file", file, release, res.ret, <<>>, <<>>)
    /\ pre' = Store
    /\ ncalls' = ncalls + 1
    /\ UNCHANGED <<mode, benchmark_data1>>

IngestFile == AddFile(IngestFiles, IngestLabels, MaxCalls)

Next == IngestFile

Spec == Init /\ [][Next]_vars

\* The store is loaded from well-formed files, then read once: by
\* get_metric_data_for_dataset (as the plot functions of both scripts do) or
\* by detect_changes (main of visualize_benchmarks.py).
LoadFile == AddFile(ChangeFiles, ChangeLabels, MaxDetectCalls)

GetMetricData ==
    /\ pc = "loading"
    /\ ncalls >= 1
    /\ \E metric \in QueryMetrics, dataset \in QueryDatasets :
          LET res == GetMetricDataForDataset(Store, metric, dataset)
          IN  /\ SetStore(res.store)
              /\ last' = Op("get_metric_data_for_dataset", NoFile, <<>>, "None",
                            <<metric, dataset>>, res.out)
    /\ pc' = "plotted"
    /\ pre' = Store
    /\ UNCHANGED <<mode, ncalls, benchmark_data1>>

Detect ==
    /\ mode = "visualize"
    /\ pc = "loading"
    /\ ncalls >= 1
    /\ \E threshold \in Thresholds, dsOrder \in Orders(datasets),
          mOrder \in Orders(metrics) :
          LET res == DetectChanges(Store, threshold, dsOrder, mOrder)
          IN  /\ SetStore(res.store)
              /\ last' = Op("detect_changes", NoFile, <<>>, "None",
                            <<threshold, dsOrder, mOrder>>, res.out)
    /\ pc' = "detected"
    /\ pre' = Store
    /\ UNCHANGED <<mode, ncalls, benchmark_data1>>

NextChanges == LoadFile \/ GetMetricData \/ Detect

SpecChanges == Init /\ [][NextChanges]_vars

\* The store is built, then read any number of times (up to MaxReads) by
\* get_metric_data_for_dataset and, in visualize_benchmarks.py, by
\* detect_changes.
BuildStore == AddFile(ReadFiles, IngestLabels, MaxCalls)

ReadSeries ==
    /\ pc \in {"loading", "reading"}
    /\ ncalls >= 1
    /\ ncalls < MaxCalls + MaxReads
    /\ \E metric \in QueryMetrics, dataset \in QueryDatasets :
          LET res == GetMetricDataForDataset(Store, metric, dataset)
          IN  /\ SetStore(res.store)
              /\ last' = Op("get_metric_data_for_dataset", NoFile, <<>>, "None",
                            <<metric, dataset>>, res.out)
    /\ pc' = "reading"
    /\ pre' = Store
    /\ ncalls' = ncalls + 1
    /\ UNCHANGED <<mode, benchmark_data1>>

ReadChanges ==
    /\ mode = "visualize"
    /\ pc \in {"loading", "reading"}
    /\ ncalls >= 1
    /\ ncalls < MaxCalls + MaxReads
    /\ \E threshold \in Thresholds, dsOrder \in Orders(datasets),
          mOrder \in Orders(metrics) :
          LET res == DetectChanges(Store, threshold, dsOrder, mOrder)
          IN  /\ SetStore(res.store)
              /\ last' = Op("detect_changes", NoFile, <<>>, "None",
                            <<threshold, dsOrder, mOrder>>, res.out)
    /\ pc' = "reading"
    /\ pre' = Store
    /\ ncalls' = ncalls + 1
    /\ UNCHANGED <<mode, benchmark_data1>>

NextReads == BuildStore \/ ReadSeries \/ ReadChanges

SpecReads == Init /\ [][NextReads]_vars

\* visualize_benchmarks.py draws the combined plot of the loaded store.
PlotAggregated ==
    /\ mode = "visualize"
    /\ pc = "loading"
    /\ ncalls >= 1
    /\ LET res == AggregatedComparison(Store)
       IN  /\ SetStore(res.store)
           /\ last' = Op("aggregated_comparison", NoFile, <<>>, "None", <<>>,
                         res.out)
    /\ pc' = "plotted"
    /\ pre' = Store
    /\ UNCHANGED <<mode, ncalls, benchmark_data1>>

NextPlots == LoadFile \/ PlotAggregated

SpecPlots == Init /\ [][NextPlots]_vars

\* compare_benchmark_iterations.py loads a directory into a new store.
LoadDirectory ==
    /\ mode = "compare"
    /\ pc = "loading"
    /\ ncalls = 0
    /\ \E names \in DirListings :
          \E files \in [Range(names) -> DirFiles] :
              LET res == LoadBenchmarkData(names, files)
              IN  /\ SetStore(res.store)
                  /\ pc' = IF res.ret = "raise" THEN "crashed" ELSE "loaded"
                  /\ last' = Op("load_benchmark_data", NoFile, <<>>, res.ret,
                                <<names, files>>, SortFiles(names))
    /\ pre' = Store
    /\ ncalls' = ncalls + 1
    /\ UNCHANGED <<mode, benchmark_data1>>

NextLoad == LoadDirectory

InitLoad == Init /\ mode = "compare"

SpecLoad == InitLoad /\ [][NextLoad]_vars

\* compare_benchmark_iterations.py: the store of the first run is loaded,
\* then a new store for the second run, then generate_comparison_plots
\* computes the release axis of the two.
LoadRun1 ==
    /\ benchmark_data1 = EmptyStore
    /\ AddFile(AxisFiles, Run1Labels, MaxRunFiles)

\* benchmark_data2 = load_benchmark_data(args.dir2) begins with a new store;
\* from here on the store variables are those of benchmark_data2.
SecondRun ==
    /\ pc = "loading"
    /\ ncalls >= 1
    /\ benchmark_data1 = EmptyStore
    /\ benchmark_data1' = Store
    /\ SetStore(EmptyStore)
    /\ ncalls' = 0
    /\ pre' = Store
    /\ last' = Op("BenchmarkData", NoFile, <<>>, "None", <<>>, <<>>)
    /\ UNCHANGED <<mode, pc>>

LoadRun2 ==
    /\ benchmark_data1 # EmptyStore
    /\ AddFile(AxisFiles, Run2Labels, MaxRunFiles)

\* The query of the operation's record is the first store before the call.
MergeAxis ==
    /\ pc = "loading"
    /\ ncalls >= 1
    /\ benchmark_data1 # EmptyStore
    /\ LET res == MergeReleases(benchmark_data1, Store)
       IN  /\ benchmark_data1' = res.run1
           /\ SetStore(res.run2)
           /\ last' = Op("all_releases", NoFile, <<>>, "None",
                         <<benchmark_data1>>, res.out)
    /\ pc' = "plotted"
    /\ pre' = Store
    /\ UNCHANGED <<mode, ncalls>>

NextCompare == LoadRun1 \/ SecondRun \/ LoadRun2 \/ MergeAxis

SpecCompare == InitLoad /\ [][NextCompare]_vars

-----------------------------------------------------------------------------
(* Vocabulary of the properties *)

LastIs(op) == last.op = op

\* The positions of pre.releases whose release holds a value for the pair
Holders(dataset, metric) ==
    {i \in 1..Len(pre.releases) :
        HasValue(pre.data, pre.releases[i], dataset, metric)}

\* i and j are neighbours in the filtered series of the pair
Adjacent(dataset, metric, i, j) ==
    /\ i \in Holders(dataset, metric)
    /\ j \in Holders(dataset, metric)
    /\ i < j
    /\ \A k \in Holders(dataset, metric) : ~(i < k /\ k < j)

PreValue(i, dataset, metric) ==
    ValueOf(pre.data, pre.releases[i], dataset, metric)

\* Whether the row dict d names a dataset for the script m, and which
RowHasDataset(m, d) ==
    IF m = "visualize" THEN HasKey(d, DATASET) ELSE Truthy(DatasetOfRowC(d))

RowDataset(m, d) ==
    IF m = "visualize" THEN RowGet(d, DATASET) ELSE DatasetOfRowC(d)

IsMetricKey(m, key) ==
    /\ key # NoneVal
    /\ IF m = "visualize" THEN key # DATASET ELSE Lower(key) # DATASET

\* The rows of the file that supply a numeric cell for (dataset, metric)
SuppliedRows(m, file, dataset, metric) ==
    {j \in 1..Len(file.rows) :
        LET d == DictRow(file.header, file.rows[j])
        IN  /\ file.readable
            /\ RowHasDataset(m, d)
            /\ RowDataset(m, d) = dataset
            /\ IsMetricKey(m, metric)
            /\ HasKey(d, metric)
            /\ ParseFloat(RowGet(d, metric))[1] = "ok"}

SetMax(T) == CHOOSE x \in T : \A y \in T : y <= x

\* The number in the last row of the file that supplies (dataset, metric)
LastSupplied(m, file, dataset, metric) ==
    LET j == SetMax(SuppliedRows(m, file, dataset, metric))
    IN  ParseFloat(RowGet(DictRow(file.header, file.rows[j]), metric))[2]

\* No row of the file has more cells than the header has columns
NoLongRow(file) ==
    \A j \in 1..Len(file.rows) : Len(file.rows[j]) <= Len(file.header)

\* The datasets and metrics a property ranges over: those of the store and
\* those of the input files
AllDatasets == datasets \cup {DsA, DsB, <<>>}
AllMetrics == metrics \cup {QPS, MEAN_LATENCY, QPS_STDDEV}
AllReleases == Range(releases) \cup DOMAIN data \cup DOMAIN pre.data

SameTriple(release, dataset, metric) ==
    /\ HasValue(data, release, dataset, metric)
        <=> HasValue(pre.data, release, dataset, metric)
    /\ HasValue(data, release, dataset, metric)
        => ValueOf(data, release, dataset, metric)
            = ValueOf(pre.data, release, dataset, metric)

-----------------------------------------------------------------------------
(* Properties *)

\* C1: after any sequence of add_file calls store.releases has no duplicate
\* label; a call with a label already in the list leaves the list as it was
\* and a call with a new label appends it at the end, whether the load
\* succeeded or not.
C1_ReleasesDistinct ==
    /\ NoDuplicatesIn(releases)
    /\ LastIs("add_file") =>
          IF InSeq(last.release, pre.releases)
          THEN releases = pre.releases
          ELSE releases = Append(pre.releases, last.release)

\* C1 witness: a failed load under a label that was already in the list
C1_Witness ==
    /\ LastIs("add_file")
    /\ last.ret \in {"False", "raise"}
    /\ InSeq(last.release, pre.releases)
    /\ releases = pre.releases

\* C2 as claimed: add_file for a release already in the store (of a file
\* whose rows are no longer than its header) leaves every triple the file
\* supplies with the value of the last row supplying it, and every other
\* triple, of this and of every other release, as it was.
C2_ReAddOverwritesSupplied ==
    (/\ LastIs("add_file")
     /\ InSeq(last.release, pre.releases)
     /\ NoLongRow(last.file)) =>
        \A r \in AllReleases, d \in AllDatasets, m \in AllMetrics :
            IF r = last.release /\ SuppliedRows(mode, last.file, d, m) # {}
            THEN /\ HasValue(data, r, d, m)
                 /\ ValueOf(data, r, d, m) = LastSupplied(mode, last.file, d, m)
            ELSE SameTriple(r, d, m)

\* C9 as claimed: in a file whose rows are no longer than the header, a cell
\* that is no number (text, empty, or missing in a short row) drops only
\* itself: every numeric cell of the file is stored, with the value of the
\* last row supplying its triple.
C9_BadCellDropsOnlyItself ==
    (/\ LastIs("add_file")
     /\ last.file.readable
     /\ NoLongRow(last.file)) =>
        \A d \in AllDatasets, m \in AllMetrics :
            SuppliedRows(mode, last.file, d, m) # {} =>
                /\ HasValue(data, last.release, d, m)
                /\ ValueOf(data, last.release, d, m)
                    = LastSupplied(mode, last.file, d, m)

\* C10 as claimed: when add_file reports False the store is what it was
\* before the call.
C10_FailedLoadChangesNothing ==
    (LastIs("add_file") /\ last.ret = "False") => Store = pre

\* The records of last.out (the list detect_changes returned) for one step
RecordsOf(dataset, metric, i, j) ==
    {k \in 1..Len(last.out) :
        /\ last.out[k].dataset = dataset
        /\ last.out[k].metric = metric
        /\ last.out[k].previous_release = pre.releases[i]
        /\ last.out[k].current_release = pre.releases[j]}

\* C3: get_metric_data_for_dataset(metric, dataset) returns exactly the
\* releases of store.releases that hold a value for the pair, in the order
\* of store.releases, each with its stored value: the n-th entry returned is
\* the n-th holder.
C3_SeriesIsFilteredReleases ==
    LastIs("get_metric_data_for_dataset") =>
        LET metric == last.query[1]
            dataset == last.query[2]
            rs == last.out[1]
            vs == last.out[2]
            holders == Holders(dataset, metric)
        IN  /\ Len(rs) = Cardinality(holders)
            /\ Len(vs) = Len(rs)
            /\ \A n \in 1..Len(rs) :
                  \E i \in holders :
                      /\ Cardinality({h \in holders : h < i}) = n - 1
                      /\ rs[n] = pre.releases[i]
                      /\ vs[n] = PreValue(i, dataset, metric)

\* C3 witness: a series of two entries around a release without the pair
C3_Witness ==
    /\ LastIs("get_metric_data_for_dataset")
    /\ Len(pre.releases) = 3
    /\ Holders(last.query[2], last.query[1]) = {1, 3}
    /\ Len(last.out[1]) = 2

\* C4: for every (dataset, metric) and every two neighbours (prev, cur) of
\* its filtered series, detect_changes emits exactly one record if
\* prev # 0 and abs((cur - prev) / prev * 100) >= threshold, whose change_pct
\* is (cur - prev) / prev * 100, and no record otherwise.
C4_RecordPerSignificantStep ==
    LastIs("detect_changes") =>
        \A dataset \in pre.datasets, metric \in pre.metrics :
            \A i, j \in 1..Len(pre.releases) :
                Adjacent(dataset, metric, i, j) =>
                    LET prev == PreValue(i, dataset, metric)
                        cur == PreValue(j, dataset, metric)
                        recs == RecordsOf(dataset, metric, i, j)
                    IN  IF prev # 0
                           /\ Abs((cur - prev) * 100) >= last.query[1] * Abs(prev)
                        THEN /\ Cardinality(recs) = 1
                             /\ \A k \in recs :
                                   last.out[k].change_pct[1] * prev
                                     = (cur - prev) * 100
                                         * last.out[k].change_pct[2]
                        ELSE recs = {}

\* C4 witness: one step from a previous value 0 to another value (no
\* record), one step below the threshold and one emitted step
C4_Witness ==
    /\ LastIs("detect_changes")
    /\ last.out # <<>>
    /\ \E dataset \in pre.datasets, metric \in pre.metrics :
          \E i, j \in 1..Len(pre.releases) :
              /\ Adjacent(dataset, metric, i, j)
              /\ PreValue(i, dataset, metric) = 0
              /\ PreValue(j, dataset, metric) # 0
    /\ \E dataset \in pre.datasets, metric \in pre.metrics :
          \E i, j \in 1..Len(pre.releases) :
              /\ Adjacent(dataset, metric, i, j)
              /\ PreValue(i, dataset, metric) # 0
              /\ RecordsOf(dataset, metric, i, j) = {}

\* C5: the status of every record follows from its metric and the sign of
\* its change_pct: higher-is-better metrics improve when it is positive,
\* lower-is-better metrics when it is negative, all other metrics are
\* unknown.
C5_StatusByDirection ==
    LastIs("detect_changes") =>
        \A k \in 1..Len(last.out) :
            LET rec == last.out[k]
                up == rec.change_pct[1] > 0
                down == rec.change_pct[1] < 0
            IN  /\ rec.metric \in HIGHER_IS_BETTER =>
                      rec.status = IF up THEN "improvement" ELSE "regression"
                /\ rec.metric \in LOWER_IS_BETTER =>
                      rec.status = IF down THEN "improvement" ELSE "regression"
                /\ rec.metric \notin HIGHER_IS_BETTER \cup LOWER_IS_BETTER =>
                      rec.status = "unknown"

\* C5 witness: the same rise reported as an improvement of QPS and as a
\* regression of Mean Latency, beside a record of a metric of neither set
C5_Witness ==
    /\ LastIs("detect_changes")
    /\ \E k, l, n \in 1..Len(last.out) :
          /\ last.out[k].metric = QPS
          /\ last.out[l].metric = MEAN_LATENCY
          /\ last.out[k].dataset = last.out[l].dataset
          /\ last.out[k].change_pct = last.out[l].change_pct
          /\ last.out[k].change_pct[1] > 0
          /\ last.out[k].status = "improvement"
          /\ last.out[l].status = "regression"
          /\ last.out[n].metric = QPS_STDDEV
          /\ last.out[n].status = "unknown"

\* C6: every record links two neighbours of the filtered series of its
\* pair: previous_release comes before current_release in store.releases,
\* both hold a value for the pair, no release between them does, and the
\* record's values are the stored values of the two releases.
C6_RecordsLinkNeighbours ==
    LastIs("detect_changes") =>
        \A k \in 1..Len(last.out) :
            LET rec == last.out[k]
            IN  \E i, j \in 1..Len(pre.releases) :
                    /\ pre.releases[i] = rec.previous_release
                    /\ pre.releases[j] = rec.current_release
                    /\ Adjacent(rec.dataset, rec.metric, i, j)
                    /\ rec.previous_value = PreValue(i, rec.dataset, rec.metric)
                    /\ rec.current_value = PreValue(j, rec.dataset, rec.metric)

\* C6 witness: a record across a release that lacks the pair, beside a
\* series of three entries
C6_Witness ==
    /\ LastIs("detect_changes")
    /\ Len(pre.releases) = 3
    /\ \E k \in 1..Len(last.out) :
          /\ last.out[k].previous_release = pre.releases[1]
          /\ last.out[k].current_release = pre.releases[3]
          /\ last.out[k].previous_value # last.out[k].current_value
    /\ \E dataset \in pre.datasets, metric \in pre.metrics :
          Holders(dataset, metric) = {1, 2, 3}

Records(changes) == {changes[k] : k \in 1..Len(changes)}

\* C7: for a fixed store and threshold the set of records detect_changes
\* returns is the same for every order in which the datasets and the
\* metrics are iterated.
C7_OrderIndependent ==
    LastIs("detect_changes") =>
        \A dsOrder \in Orders(pre.datasets), mOrder \in Orders(pre.metrics) :
            Records(DetectChanges(pre, last.query[1], dsOrder, mOrder).out)
                = Records(last.out)

\* C7 witness: records of two datasets and of two metrics, returned by a run
\* that another order of datasets and metrics returns in another sequence
C7_Witness ==
    /\ LastIs("detect_changes")
    /\ \E k, l \in 1..Len(last.out) :
          /\ last.out[k].dataset # last.out[l].dataset
          /\ last.out[k].metric # last.out[l].metric
    /\ \E dsOrder \in Orders(pre.datasets), mOrder \in Orders(pre.metrics) :
          /\ dsOrder # last.query[2]
          /\ mOrder # last.query[3]
          /\ DetectChanges(pre, last.query[1], dsOrder, mOrder).out # last.out

\* C8 as claimed: a directory load that ran to its end adds every file
\* labelled "main" (in any case) after all files with another label, and in
\* store.releases "main" comes after every other label.
C8_MainLoadedLast ==
    (LastIs("load_benchmark_data") /\ last.ret = "None") =>
        /\ \A i, j \in 1..Len(last.out) :
              ( /\ Lower(ExtractReleaseFromFilename(last.out[i])) = MAIN
                /\ Lower(ExtractReleaseFromFilename(last.out[j])) # MAIN )
              => j < i
        /\ \A i, j \in 1..Len(releases) :
              (Lower(releases[i]) = MAIN /\ Lower(releases[j]) # MAIN)
              => j < i

\* Whether the row dict d has a value in the dataset column that the script m
\* reads: a non-empty cell under "dataset" (visualize) or under "Dataset" or
\* "dataset" (compare)
NamesDataset(m, d) ==
    IF m = "visualize" THEN Truthy(RowGet(d, DATASET))
    ELSE Truthy(DatasetOfRowC(d))

\* The rows of the file that have no dataset value
DatasetlessRows(m, file) ==
    {j \in 1..Len(file.rows) :
        ~NamesDataset(m, DictRow(file.header, file.rows[j]))}

\* The file without these rows
WithoutDatasetlessRows(m, file) ==
    LET Named(row) == NamesDataset(m, DictRow(file.header, row))
    IN  [file EXCEPT !.rows = SelectSeq(@, Named)]

\* C11 as claimed: a row without a dataset value is skipped and nothing else:
\* add_file leaves the store as it leaves it for the same file without such
\* rows (no dataset, metric or triple comes from them, and the rows after
\* them are processed), in both scripts.
C11_DatasetlessRowSkipped ==
    (LastIs("add_file") /\ last.file.readable) =>
        Store = AddFileOf(mode, pre, WithoutDatasetlessRows(mode, last.file),
                          last.release).store

\* The entries of the list s that are not in the list t, in the order of s
NotIn(s, t) ==
    LET Missing(x) == ~InSeq(x, t)
    IN  SelectSeq(s, Missing)

\* C12: the merged release axis of two stores is run1.releases followed by
\* the labels of run2.releases that are not in run1.releases, in run2's
\* order; it holds every label of either run exactly once; ["1.0", "1.1"]
\* and ["1.1", "1.2", "main"] give ["1.0", "1.1", "1.2", "main"]; computing
\* it changes neither store.
C12_MergedAxis ==
    LastIs("all_releases") =>
        LET run1 == last.query[1]
            run2 == pre
            axis == last.out
        IN  /\ axis = run1.releases \o NotIn(run2.releases, run1.releases)
            /\ NoDuplicatesIn(axis)
            /\ Range(axis) = Range(run1.releases) \cup Range(run2.releases)
            /\ (run1.releases = <<RelA, RelB>>
                   /\ run2.releases = <<RelB, RelC, MAIN>>)
                => axis = <<RelA, RelB, RelC, MAIN>>
            /\ benchmark_data1 = run1
            /\ Store = run2

\* C12 witness: the axis of the releases ["1.0", "1.1"] and
\* ["1.1", "1.2", "main"]
C12_Witness ==
    /\ LastIs("all_releases")
    /\ last.query[1].releases = <<RelA, RelB>>
    /\ pre.releases = <<RelB, RelC, MAIN>>
    /\ last.out = <<RelA, RelB, RelC, MAIN>>
    /\ benchmark_data1.releases = <<RelA, RelB>>
    /\ releases = <<RelB, RelC, MAIN>>

\* The lines of last.out (the combined plot) for one pair
LinesOf(metric, dataset) ==
    {l \in last.out : l.metric = metric /\ l.dataset = dataset}

\* The values of the pair's series in the store before the last operation
PreValues(dataset, metric) == SeriesFrom(pre, metric, dataset, 1)[2]

LexBefore(a, b) ==
    \E k \in 1..(Len(b)) :
        /\ \A n \in 1..(k - 1) : n <= Len(a) /\ a[n] = b[n]
        /\ \/ Len(a) = k - 1
           \/ Len(a) >= k /\ Code(a[k]) < Code(b[k])

\* The position of x in the list s (0 if it is not in s)
IndexOf(x, s) ==
    IF InSeq(x, s) THEN CHOOSE i \in 1..Len(s) : s[i] = x ELSE 0

NotMain(release) == Lower(release) # MAIN

Ten == <<"1", "0", ".", "0", ".", "0">>
Two == <<"2", ".", "0", ".", "0">>

\* C14: a directory load adds the files whose labels are not "main" in the
\* lexicographic order of their release strings, so in store.releases every
\* such label comes lexicographically before the ones after it; a file
\* labelled "10.0.0" is added before a file labelled "2.0.0", and "10.0.0"
\* precedes "2.0.0" in store.releases.
C14_LexicographicOrder ==
    LastIs("load_benchmark_data") =>
        LET files == last.out
            Label(i) == ExtractReleaseFromFilename(files[i])
        IN  /\ \A i, j \in 1..Len(files) :
                  (i < j /\ NotMain(Label(i)) /\ NotMain(Label(j))) =>
                      (Label(i) = Label(j) \/ LexBefore(Label(i), Label(j)))
            /\ \A i, j \in 1..Len(releases) :
                  (i < j /\ NotMain(releases[i]) /\ NotMain(releases[j])) =>
                      LexBefore(releases[i], releases[j])
            /\ \A i, j \in 1..Len(files) :
                  (Label(i) = Ten /\ Label(j) = Two) => i < j
            /\ (InSeq(Ten, releases) /\ InSeq(Two, releases)) =>
                  IndexOf(Ten, releases) < IndexOf(Two, releases)

\* C14 witness: a load that ran to its end of a directory that lists the
\* file of "2.0.0" before the file of "10.0.0"
C14_Witness ==
    /\ LastIs("load_benchmark_data")
    /\ last.ret = "None"
    /\ \E i, j \in 1..Len(last.query[1]) :
          /\ i < j
          /\ ExtractReleaseFromFilename(last.query[1][i]) = Two
          /\ ExtractReleaseFromFilename(last.query[1][j]) = Ten
    /\ InSeq(Ten, releases)
    /\ InSeq(Two, releases)
    /\ IndexOf(Ten, releases) < IndexOf(Two, releases)

\* C15 as claimed: a call of get_metric_data_for_dataset or of
\* detect_changes leaves store.releases, store.datasets, store.metrics and
\* the release -> dataset -> metric mapping, its release keys included, as
\* they were before the call.
C15_ReadsChangeNothing ==
    (LastIs("get_metric_data_for_dataset") \/ LastIs("detect_changes")) =>
        /\ releases = pre.releases
        /\ datasets = pre.datasets
        /\ metrics = pre.metrics
        /\ DOMAIN data = DOMAIN pre.data
        /\ data = pre.data

====
